---- MODULE Spec2Model ----
(***************************************************************************)
(* The static k-ary search index of src/src/static_index/kary_index.h:     *)
(* an implicit (k-1)-pivot search tree (inner_nodes_) built by             *)
(* reorganize() over the key-sorted snapshot container_ of a data table,   *)
(* and searched by find().                                                 *)
(*                                                                         *)
(* Snapshot positions and inner-node positions are 0-based as in the code; *)
(* container_ is a TLA+ sequence, so position p is container_[p + 1].      *)
(***************************************************************************)
EXTENDS Integers, Sequences, FiniteSets, TLC

(***************************************************************************)
(* Bounds of the model.                                                    *)
(***************************************************************************)
\* The table handed to the constructor holds at most InitLen tuples.
InitLen == 8
\* At most MaxIns tuples are inserted after construction.
MaxIns == 1
\* num_layers_ ranges over 0..MaxLayers.
MaxLayers == 3

\* Keys stored in the table; the gaps between them are keys that are absent.
Keys == {2, 4, 6}
\* Keys looked up: the stored keys, the gaps, one below and one above.
LookupKeys == 1..7
\* End points of range lookups.
RangeKeys == {1, 5, 7}
\* Branching factors (k >= 2, asserted by the constructor).
Fanouts == {2, 3}

VARIABLES
  k_,            \* KAryIndex::k_
  num_layers_,   \* KAryIndex::num_layers_
  table,         \* the data table: keys in insertion order; the value of the
                 \* i-th tuple is i
  container_,    \* BaseStaticIndex::container_: the sorted snapshot
  size_,         \* BaseStaticIndex::size_
  key_min_,      \* KAryIndex::key_min_
  key_max_,      \* KAryIndex::key_max_
  inner_nodes_,  \* KAryIndex::inner_nodes_: function on 0..M-1
  values,        \* what the last find / find_range appended to its vector
  lastOp,        \* the call whose result the caller holds, with its arguments
  reads,         \* positions of inner_nodes_ and container_ the last find read
  pre,           \* the index state when the last reorganize() was entered
  aborted,       \* an ASSERT failed: the process has stopped
  inserted,      \* number of tuples inserted after construction
  pc,            \* concurrent specification: where reorganize() stands
  rd             \* concurrent specification: the reader's find in progress

vars == <<k_, num_layers_, table, container_, size_, key_min_, key_max_,
          inner_nodes_, values, lastOp, reads, pre, aborted, inserted, pc, rd>>

(***************************************************************************)
(* Helpers.                                                                *)
(***************************************************************************)
RECURSIVE Pow(_, _)
\* std::pow(k_, num_layers_) on the small integers used here.
Pow(b, e) == IF e = 0 THEN 1 ELSE b * Pow(b, e - 1)

\* All key sequences of length n that are in non-decreasing order.
RECURSIVE SortedSeqs(_)
SortedSeqs(n) ==
  IF n = 0 THEN {<<>>}
  ELSE {Append(p[1], p[2]) :
          p \in {q \in SortedSeqs(n - 1) \X Keys :
                   Len(q[1]) = 0 \/ q[1][Len(q[1])] <= q[2]}}

\* container_[p].key_ and container_[p].value_ for a snapshot position p.
KeyAt(p) == container_[p + 1].key_
ValueAt(p) == container_[p + 1].value_

\* The tuples of the table: the i-th inserted tuple carries value i.
Tuples(t) == [i \in 1..Len(t) |-> [key_ |-> t[i], value_ |-> i]]

RECURSIVE StableSortFrom(_, _)
\* A stable sort by key: for each key in ascending order, the entries with
\* that key in the order they have in the input.
StableSortFrom(entries, key) ==
  IF \A x \in LookupKeys : key > x THEN <<>>
  ELSE SelectSeq(entries, LAMBDA e : e.key_ = key) \o
       StableSortFrom(entries, key + 1)

\* BaseStaticIndex::base_reorganize(): the key-sorted, insertion-stable
\* projection of the table (spec section 4.2).
SortedSnapshot(t) == StableSortFrom(Tuples(t), 0)

(***************************************************************************)
(* Construction of the inner-node array.  Each operator yields the         *)
(* sequence of writes inner_nodes_[pos] = key the code performs, in order. *)
(***************************************************************************)
\* The loop "for i in [0, k_-1): inner_nodes_[base_pos + dst_pos + i] =
\* container_[begin_offset + step_offset * (i + 1)].key_".
PivotWrites(begin_offset, step_offset, base_pos, dst_pos) ==
  [j \in 1..(k_ - 1) |->
     [pos |-> base_pos + dst_pos + (j - 1),
      key |-> KeyAt(begin_offset + step_offset * j)]]

RECURSIVE ConcatAll(_)
ConcatAll(ss) == IF ss = <<>> THEN <<>> ELSE Head(ss) \o ConcatAll(Tail(ss))

\* A variant of ChildBegin that does not step over the pivot position.
ChildBeginOnPivot(begin_offset, step_offset, i) ==
  begin_offset + step_offset * i

\* A variant of ChildEnd whose children stop one position further left.
ChildEndShort(begin_offset, end_offset, step_offset, i) ==
  IF i = k_ - 1 THEN end_offset - 1 ELSE begin_offset + step_offset * (i + 1) - 2

\* The snapshot range of child i (0 <= i <= k_-1) of a node over
\* [begin_offset, end_offset]: the three call sites of the recursion.
ChildBegin(begin_offset, step_offset, i) ==
  IF i = 0 THEN begin_offset ELSE begin_offset + step_offset * i + 1
ChildEnd(begin_offset, end_offset, step_offset, i) ==
  IF i = k_ - 1 THEN end_offset ELSE begin_offset + step_offset * (i + 1) - 1

RECURSIVE construct_skipping_singletons(_, _, _, _, _)
\* A variant of construct_inner_layers_internal whose early return also
\* takes the ranges of one position (>= for >), leaving their pivots unwritten.
construct_skipping_singletons(begin_offset, end_offset, base_pos, dst_pos, curr_layer) ==
  IF begin_offset >= end_offset THEN <<>>
  ELSE
    LET step_offset == (end_offset - begin_offset) \div k_
        own == PivotWrites(begin_offset, step_offset, base_pos, dst_pos)
        new_base_pos == (base_pos + 1) * k_ - 1
        new_dst_pos == dst_pos * k_
        next_layer == curr_layer + 1
    IN IF num_layers_ = curr_layer + 1 THEN own
       ELSE own \o ConcatAll(
              [c \in 1..k_ |->
                 construct_skipping_singletons(
                   ChildBegin(begin_offset, step_offset, c - 1),
                   ChildEnd(begin_offset, end_offset, step_offset, c - 1),
                   new_base_pos, new_dst_pos + (c - 1) * (k_ - 1),
                   next_layer)])

RECURSIVE construct_inner_layers_internal(_, _, _, _, _)
construct_inner_layers_internal(begin_offset, end_offset, base_pos, dst_pos, curr_layer) ==
  IF begin_offset > end_offset THEN <<>>
  ELSE
    LET step_offset == (end_offset - begin_offset) \div k_
        own == PivotWrites(begin_offset, step_offset, base_pos, dst_pos)
        new_base_pos == (base_pos + 1) * k_ - 1
        new_dst_pos == dst_pos * k_
        next_layer == curr_layer + 1
    IN IF num_layers_ = curr_layer + 1 THEN own
       ELSE own \o ConcatAll(
              [c \in 1..k_ |->
                 construct_inner_layers_internal(
                   ChildBegin(begin_offset, step_offset, c - 1),
                   ChildEnd(begin_offset, end_offset, step_offset, c - 1),
                   new_base_pos, new_dst_pos + (c - 1) * (k_ - 1),
                   next_layer)])

\* A variant of construct_inner_layers that hands the children of the root
\* their slots of layer 1 in right-to-left order.
construct_children_reversed ==
  LET begin_offset == 0
      end_offset == size_ - 1
      step_offset == (end_offset - begin_offset) \div k_
      own == PivotWrites(begin_offset, step_offset, 0, 0)
      base_pos == k_ - 1
      next_layer == 1
  IN IF num_layers_ = 1 THEN own
     ELSE own \o ConcatAll(
            [c \in 1..k_ |->
               construct_inner_layers_internal(
                 ChildBegin(begin_offset, step_offset, c - 1),
                 ChildEnd(begin_offset, end_offset, step_offset, c - 1),
                 base_pos, (k_ - c) * (k_ - 1), next_layer)])

\* construct_inner_layers(): layer 0 and the calls for layer 1.
construct_inner_layers ==
  LET begin_offset == 0
      end_offset == size_ - 1
      step_offset == (end_offset - begin_offset) \div k_
      own == PivotWrites(begin_offset, step_offset, 0, 0)
      base_pos == k_ - 1
      next_layer == 1
  IN IF num_layers_ = 1 THEN own
     ELSE own \o ConcatAll(
            [c \in 1..k_ |->
               construct_inner_layers_internal(
                 ChildBegin(begin_offset, step_offset, c - 1),
                 ChildEnd(begin_offset, end_offset, step_offset, c - 1),
                 base_pos, (c - 1) * (k_ - 1), next_layer)])

\* One call of the construction recursion: its arguments, and whether it
\* left through "if (begin_offset > end_offset) { return; }".
ConstructVisit(begin_offset, end_offset, base_pos, dst_pos, curr_layer) ==
  [begin_offset |-> begin_offset, end_offset |-> end_offset,
   base_pos |-> base_pos, dst_pos |-> dst_pos, curr_layer |-> curr_layer,
   returned_early |-> begin_offset > end_offset]

RECURSIVE construct_visits_internal(_, _, _, _, _)
\* The calls of construct_inner_layers_internal below and including the one
\* with these arguments, in the order the code makes them.
construct_visits_internal(begin_offset, end_offset, base_pos, dst_pos, curr_layer) ==
  LET here == ConstructVisit(begin_offset, end_offset, base_pos, dst_pos,
                             curr_layer)
      step_offset == (end_offset - begin_offset) \div k_
      new_base_pos == (base_pos + 1) * k_ - 1
      new_dst_pos == dst_pos * k_
      next_layer == curr_layer + 1
  IN IF begin_offset > end_offset THEN <<here>>
     ELSE IF num_layers_ = curr_layer + 1 THEN <<here>>
     ELSE <<here>> \o ConcatAll(
            [c \in 1..k_ |->
               construct_visits_internal(
                 ChildBegin(begin_offset, step_offset, c - 1),
                 ChildEnd(begin_offset, end_offset, step_offset, c - 1),
                 new_base_pos, new_dst_pos + (c - 1) * (k_ - 1),
                 next_layer)])

\* The calls construct_inner_layers() gives rise to, itself (layer 0) first.
construct_visits ==
  LET begin_offset == 0
      end_offset == size_ - 1
      step_offset == (end_offset - begin_offset) \div k_
      base_pos == k_ - 1
      next_layer == 1
  IN IF num_layers_ = 1
     THEN <<ConstructVisit(begin_offset, end_offset, 0, 0, 0)>>
     ELSE <<ConstructVisit(begin_offset, end_offset, 0, 0, 0)>> \o ConcatAll(
            [c \in 1..k_ |->
               construct_visits_internal(
                 ChildBegin(begin_offset, step_offset, c - 1),
                 ChildEnd(begin_offset, end_offset, step_offset, c - 1),
                 base_pos, (c - 1) * (k_ - 1), next_layer)])

\* new KeyT[inner_size] followed by the writes: a position no write reaches
\* keeps whatever the allocation held, junk[pos]; of several writes to one
\* position the last one stays.
InnerNodesAfter(writes, inner_size, junk) ==
  [pos \in 0..(inner_size - 1) |->
     LET hits == {j \in 1..Len(writes) : writes[j].pos = pos}
     IN IF hits = {} THEN junk[pos]
        ELSE writes[CHOOSE j \in hits : \A h \in hits : h <= j].key]

\* The positions of a new inner-node array that construction never writes.
Unwritten(writes, inner_size) ==
  {pos \in 0..(inner_size - 1) : \A j \in 1..Len(writes) : writes[j].pos # pos}

(***************************************************************************)
(* find(): the descent through inner_nodes_, the binary search of a leaf   *)
(* range and the scan for duplicates.  Besides their result the operators  *)
(* yield the positions of inner_nodes_ and container_ they read.           *)
(***************************************************************************)
RECURSIVE find_internal(_, _, _)
\* Binary search of container_[offset_begin..offset_end]; size_ when absent.
\* oob: the position looked up lies outside the snapshot.
find_internal(key, offset_begin, offset_end) ==
  IF offset_begin > offset_end THEN [pos |-> size_, readC |-> {}, oob |-> FALSE]
  ELSE
    LET offset_lookup == (offset_begin + offset_end) \div 2
    IN IF offset_lookup \notin 0..(size_ - 1)
       THEN [pos |-> size_, readC |-> {offset_lookup}, oob |-> TRUE]
       ELSE
         LET key_lookup == KeyAt(offset_lookup)
             rest == IF key > key_lookup
                     THEN find_internal(key, offset_lookup + 1, offset_end)
                     ELSE find_internal(key, offset_begin, offset_lookup - 1)
         IN IF key = key_lookup
            THEN [pos |-> offset_lookup, readC |-> {offset_lookup},
                  oob |-> FALSE]
            ELSE [rest EXCEPT !.readC = @ \cup {offset_lookup}]

\* The index i of the first pivot of the node at base_pos + dst_pos that
\* equals key, or k_ - 1 when none does (the equality loops).
PivotHit(key, base_pos, dst_pos) ==
  LET hits == {i \in 0..(k_ - 2) : inner_nodes_[base_pos + dst_pos + i] = key}
  IN IF hits = {} THEN k_ - 1
     ELSE CHOOSE i \in hits : \A h \in hits : i <= h

\* The child the descent takes: the first i with key < pivot i, or k_ - 1.
ChildTaken(key, base_pos, dst_pos) ==
  LET less == {i \in 0..(k_ - 2) : key < inner_nodes_[base_pos + dst_pos + i]}
  IN IF less = {} THEN k_ - 1
     ELSE CHOOSE i \in less : \A h \in less : i <= h

\* The snapshot range of the child i the descent enters: the three return
\* statements that recurse.
DescentBegin(begin_offset, step_offset, i) ==
  IF i = 0 THEN begin_offset ELSE begin_offset + step_offset * i + 1
DescentEnd(begin_offset, end_offset, step_offset, i) ==
  IF i = k_ - 1 THEN end_offset ELSE begin_offset + step_offset * (i + 1) - 1

\* What one node of the descent contributes to the record of the search.
Visit(begin_offset, end_offset, base_pos, dst_pos, curr_layer, hit) ==
  [begin_offset |-> begin_offset, end_offset |-> end_offset,
   base_pos |-> base_pos, dst_pos |-> dst_pos, curr_layer |-> curr_layer,
   readI |-> {base_pos + dst_pos + i :
                i \in 0..(IF hit < k_ - 1 THEN hit ELSE k_ - 2)}]

RECURSIVE find_inner_layers_internal(_, _, _, _, _, _)
\* wrapped: the node's range is empty, so (end_offset - begin_offset), an
\* int below zero, is converted to size_t before the division; the pivots
\* of such a node were never written by construction.
find_inner_layers_internal(key, begin_offset, end_offset, base_pos, dst_pos, curr_layer) ==
  IF num_layers_ = curr_layer
  THEN [first |-> begin_offset, second |-> end_offset, path |-> <<>>,
        wrapped |-> FALSE]
  ELSE IF end_offset < begin_offset
  THEN [first |-> begin_offset, second |-> end_offset, path |-> <<>>,
        wrapped |-> TRUE]
  ELSE
    LET step_offset == (end_offset - begin_offset) \div k_
        hit == PivotHit(key, base_pos, dst_pos)
        here == Visit(begin_offset, end_offset, base_pos, dst_pos,
                      curr_layer, hit)
        new_base_pos == (base_pos + 1) * k_ - 1
        new_dst_pos == dst_pos * k_
        next_layer == curr_layer + 1
        c == ChildTaken(key, base_pos, dst_pos)
        below == find_inner_layers_internal(
                   key, DescentBegin(begin_offset, step_offset, c),
                   DescentEnd(begin_offset, end_offset, step_offset, c),
                   new_base_pos, new_dst_pos + c * (k_ - 1), next_layer)
    IN IF hit < k_ - 1
       THEN [first |-> begin_offset + step_offset * (hit + 1),
             second |-> begin_offset + step_offset * (hit + 1),
             path |-> <<here>>, wrapped |-> FALSE]
       ELSE [below EXCEPT !.path = <<here>> \o @]

\* A variant of find_inner_layers whose pair for num_layers_ == 0 ends two
\* past the last snapshot position, (0, size_ + 1).
find_inner_layers_past_end(key) ==
  IF num_layers_ = 0
  THEN [first |-> 0, second |-> size_ + 1, path |-> <<>>, wrapped |-> FALSE]
  ELSE
    LET begin_offset == 0
        end_offset == size_ - 1
        step_offset == (end_offset - begin_offset) \div k_
        hit == PivotHit(key, 0, 0)
        here == Visit(begin_offset, end_offset, 0, 0, 0, hit)
        base_pos == k_ - 1
        next_layer == 1
        c == ChildTaken(key, 0, 0)
        below == find_inner_layers_internal(
                   key, DescentBegin(begin_offset, step_offset, c),
                   DescentEnd(begin_offset, end_offset, step_offset, c),
                   base_pos, c * (k_ - 1), next_layer)
    IN IF hit < k_ - 1
       THEN [first |-> begin_offset + step_offset * (hit + 1),
             second |-> begin_offset + step_offset * (hit + 1),
             path |-> <<here>>, wrapped |-> FALSE]
       ELSE [below EXCEPT !.path = <<here>> \o @]

\* find_inner_layers(): layer 0, then the descent from layer 1.
find_inner_layers(key) ==
  IF num_layers_ = 0
  THEN [first |-> 0, second |-> size_, path |-> <<>>, wrapped |-> FALSE]
  ELSE
    LET begin_offset == 0
        end_offset == size_ - 1
        step_offset == (end_offset - begin_offset) \div k_
        hit == PivotHit(key, 0, 0)
        here == Visit(begin_offset, end_offset, 0, 0, 0, hit)
        base_pos == k_ - 1
        next_layer == 1
        c == ChildTaken(key, 0, 0)
        below == find_inner_layers_internal(
                   key, DescentBegin(begin_offset, step_offset, c),
                   DescentEnd(begin_offset, end_offset, step_offset, c),
                   base_pos, c * (k_ - 1), next_layer)
    IN IF hit < k_ - 1
       THEN [first |-> begin_offset + step_offset * (hit + 1),
             second |-> begin_offset + step_offset * (hit + 1),
             path |-> <<here>>, wrapped |-> FALSE]
       ELSE [below EXCEPT !.path = <<here>> \o @]

RECURSIVE ScanLeft(_, _)
\* "move left": the positions emitted from offset_find_lhs downwards.
ScanLeft(key, offset_find_lhs) ==
  IF offset_find_lhs >= 0 /\ KeyAt(offset_find_lhs) = key
  THEN <<offset_find_lhs>> \o ScanLeft(key, offset_find_lhs - 1)
  ELSE <<>>

RECURSIVE ScanRightShort(_, _)
\* A variant of ScanRight whose loop bound is < size_ - 1: it never looks at
\* the last snapshot position.
ScanRightShort(key, offset_find_rhs) ==
  IF offset_find_rhs < size_ - 1 /\ KeyAt(offset_find_rhs) = key
  THEN <<offset_find_rhs>> \o ScanRightShort(key, offset_find_rhs + 1)
  ELSE <<>>

RECURSIVE ScanRight(_, _)
\* "move right": the positions emitted from offset_find_rhs upwards.
ScanRight(key, offset_find_rhs) ==
  IF offset_find_rhs <= size_ - 1 /\ KeyAt(offset_find_rhs) = key
  THEN <<offset_find_rhs>> \o ScanRight(key, offset_find_rhs + 1)
  ELSE <<>>

\* The positions a scan read: those it emitted and the one that stopped it.
ScanRead(emitted, first, dir) ==
  {emitted[j] : j \in 1..Len(emitted)} \cup
  ({first + dir * Len(emitted)} \cap (0..(size_ - 1)))

\* The result of a find that reads nothing and appends nothing.
NoResult ==
  [emitted |-> <<>>, readI |-> {}, readC |-> {}, path |-> <<>>,
   undefined |-> FALSE]

\* The anchor and the two scans (from "values.push_back(container_
\* [offset_find].value_)" to the end of find).
EmitFrom(key, offset_find) ==
  LET lhs == ScanLeft(key, offset_find - 1)
      rhs == ScanRight(key, offset_find + 1)
  IN [emitted |-> <<offset_find>> \o lhs \o rhs,
      readC |-> {offset_find} \cup ScanRead(lhs, offset_find - 1, 0 - 1)
                \cup ScanRead(rhs, offset_find + 1, 1)]

\* From "if (offset_find == this->size_)" to the end of find.
\* undefined: the call read outside the snapshot or divided a wrapped range.
FindEmit(key, offset_range, searched) ==
  LET base == [NoResult EXCEPT
                 !.readI = UNION {offset_range.path[j].readI :
                                    j \in 1..Len(offset_range.path)},
                 !.path = offset_range.path,
                 !.readC = searched.readC]
  IN IF offset_range.wrapped \/ searched.oob
     THEN [base EXCEPT !.undefined = TRUE]
     ELSE IF searched.pos = size_ THEN base
     ELSE [base EXCEPT !.emitted = EmitFrom(key, searched.pos).emitted,
                       !.readC = @ \cup EmitFrom(key, searched.pos).readC]

\* "if (offset_range.first == offset_range.second) offset_find = first;
\* else offset_find = find_internal(key, first, second)".
FindAnchor(key, offset_range) ==
  FindEmit(key, offset_range,
           IF offset_range.first = offset_range.second
           THEN [pos |-> offset_range.first, readC |-> {}, oob |-> FALSE]
           ELSE find_internal(key, offset_range.first, offset_range.second))

\* A variant of find that descends before it compares key with key_min_ and
\* key_max_.
find_without_range_check(key) ==
  IF size_ = 0 THEN NoResult
  ELSE IF key_max_ = key_min_
  THEN IF key_max_ = key
       THEN [NoResult EXCEPT !.emitted = [j \in 1..size_ |-> j - 1],
                             !.readC = 0..(size_ - 1)]
       ELSE NoResult
  ELSE FindAnchor(key, find_inner_layers(key))

\* find(key): emitted lists the snapshot positions whose values are
\* appended, in the order of the push_back calls.
find(key) ==
  IF size_ = 0 THEN NoResult
  ELSE IF key > key_max_ \/ key < key_min_ THEN NoResult
  ELSE IF key_max_ = key_min_
  THEN IF key_max_ = key
       THEN [NoResult EXCEPT !.emitted = [j \in 1..size_ |-> j - 1],
                             !.readC = 0..(size_ - 1)]
       ELSE NoResult
  ELSE FindAnchor(key, find_inner_layers(key))

\* The values at a sequence of snapshot positions.
ValuesAt(positions) == [j \in 1..Len(positions) |-> ValueAt(positions[j])]

(***************************************************************************)
(* The state and the operations.                                           *)
(***************************************************************************)
\* The five fields a reader of the index depends on.
Published ==
  [C |-> container_, I |-> inner_nodes_, N |-> size_,
   key_min |-> key_min_, key_max |-> key_max_]

Op(name, a, b, ok, again) ==
  [op |-> name, key |-> a, rhs |-> b, ok |-> ok, again |-> again]

\* No call has returned a result that the caller still holds.
Idle == Op("none", 0, 0, TRUE, FALSE)

\* The reader of the concurrent specification when no find is in progress.
NoReader == [at |-> "idle", key |-> 0, seen |-> <<>>]

\* KAryIndex(table_ptr, num_layers, k) over a table that already holds up to
\* InitLen tuples, inserted in key order.  The snapshot is empty and size_
\* is 0 until the first reorganize(); key_min_, key_max_ and inner_nodes_
\* are not initialised by the constructor.
Init ==
  /\ k_ \in Fanouts
  /\ num_layers_ \in 0..MaxLayers
  /\ table \in UNION {SortedSeqs(n) : n \in 0..InitLen}
  /\ container_ = <<>>
  /\ size_ = 0
  /\ key_min_ = "indeterminate"
  /\ key_max_ = "indeterminate"
  /\ inner_nodes_ = <<>>
  /\ values = <<>>
  /\ lastOp = Idle
  /\ reads = NoResult
  /\ pre = <<>>
  /\ aborted = FALSE
  /\ inserted = 0
  /\ pc = "idle"
  /\ rd = NoReader

\* DataTable::insert_tuple(key, value): append to the table.  The index
\* does not change until the next reorganize().
Insert(key) ==
  /\ ~aborted
  /\ lastOp = Idle
  /\ inserted < MaxIns
  /\ table' = Append(table, key)
  /\ inserted' = inserted + 1
  /\ UNCHANGED <<k_, num_layers_, container_, size_, key_min_, key_max_,
                 inner_nodes_, values, lastOp, reads, pre, aborted, pc, rd>>

\* reorganize(): base_reorganize() installs the new snapshot, then the
\* ASSERT on the layer count, then key_min_/key_max_ and the inner nodes.
\* A failed ASSERT reports the error and stops the process where it stands.
Reorganize ==
  /\ ~aborted
  /\ lastOp = Idle
  /\ UNCHANGED <<k_, num_layers_, table, inserted, pc, rd>>
  /\ container_' = SortedSnapshot(table)
  /\ size_' = Len(table)
  /\ pre' = Published
  /\ values' = <<>>
  /\ reads' = NoResult
  /\ LET inner_node_size == Pow(k_, num_layers_) - 1
     IN IF ~(inner_node_size < size_')
        THEN /\ aborted' = TRUE
             /\ lastOp' = Op("reorganize", 0, 0, FALSE, FALSE)
             /\ UNCHANGED <<key_min_, key_max_, inner_nodes_>>
        ELSE /\ aborted' = FALSE
             /\ lastOp' = Op("reorganize", 0, 0, TRUE,
                             size_ > 0 /\ size_ = Len(table))
             /\ key_min_' = container_'[1].key_
             /\ key_max_' = container_'[size_'].key_
             /\ IF num_layers_ # 0
                THEN LET inner_size == Pow(k_, num_layers_) - 1
                     IN \E writes \in {construct_inner_layers'} :
                          \E junk \in [Unwritten(writes, inner_size)
                                         -> LookupKeys] :
                            inner_nodes_' =
                              InnerNodesAfter(writes, inner_size, junk)
                ELSE inner_nodes_' = <<>>

\* What a find whose behaviour is undefined may append.
UndefinedOutcomes == {<<>>} \cup {<<v>> : v \in 1..Len(table)}

\* find(key, values) on a fresh vector.
Find(key) ==
  /\ ~aborted
  /\ lastOp = Idle
  /\ \E r \in {find(key)} :
       /\ IF r.undefined THEN values' \in UndefinedOutcomes
          ELSE values' = ValuesAt(r.emitted)
       /\ reads' = r
  /\ lastOp' = Op("find", key, 0, TRUE, FALSE)
  /\ UNCHANGED pre
  /\ UNCHANGED <<k_, num_layers_, table, container_, size_, key_min_,
                 key_max_, inner_nodes_, aborted, inserted, pc, rd>>

\* find_range(lhs_key, rhs_key, values) on a fresh vector: after the assert
\* and the two early returns the body is empty.
FindRange(lhs_key, rhs_key) ==
  /\ ~aborted
  /\ lastOp = Idle
  /\ lhs_key < rhs_key
  /\ values' = <<>>
  /\ reads' = NoResult
  /\ lastOp' = Op("find_range", lhs_key, rhs_key, TRUE, FALSE)
  /\ UNCHANGED pre
  /\ UNCHANGED <<k_, num_layers_, table, container_, size_, key_min_,
                 key_max_, inner_nodes_, aborted, inserted, pc, rd>>

\* The caller is done with the result of its last call (the vector of
\* values goes out of scope) and moves on to its next call.
Discard ==
  /\ ~aborted
  /\ lastOp # Idle
  /\ values' = <<>>
  /\ reads' = NoResult
  /\ lastOp' = Idle
  /\ pre' = <<>>
  /\ UNCHANGED <<k_, num_layers_, table, container_, size_, key_min_,
                 key_max_, inner_nodes_, aborted, inserted, pc, rd>>

Next ==
  \/ \E key \in Keys : Insert(key)
  \/ Reorganize
  \/ \E key \in LookupKeys : Find(key)
  \/ \E lhs_key \in RangeKeys, rhs_key \in RangeKeys :
       FindRange(lhs_key, rhs_key)
  \/ Discard

Spec == Init /\ [][Next]_vars

(***************************************************************************)
(* The concurrent specification: one thread runs reorganize() statement by *)
(* statement while another runs find().  The code takes no lock and has no *)
(* atomic handle: reorganize() assigns the fields of the index in place,   *)
(* in the order of its statements, and find() reads them in the order of   *)
(* its own.  The reader records the value of each field when it reads it.  *)
(***************************************************************************)
\* Number of tuples in the table when the concurrent run starts: at most
\* ConcLen, and enough for the layers.
ConcLen == 3

\* The fields the index will hold once the rebuild in progress is complete:
\* the snapshot is installed by the first statement, the rest follows from it.
Rebuilt ==
  [C |-> container_,
   I |-> IF num_layers_ # 0
         THEN InnerNodesAfter(construct_inner_layers,
                              Pow(k_, num_layers_) - 1, <<>>)
         ELSE <<>>,
   N |-> size_, key_min |-> KeyAt(0), key_max |-> KeyAt(size_ - 1)]

\* An index that has been built once over the table given to the constructor.
InitConc ==
  /\ k_ \in Fanouts
  /\ num_layers_ \in 0..1
  /\ table \in UNION {SortedSeqs(n) : n \in k_..ConcLen}
  /\ container_ = SortedSnapshot(table)
  /\ size_ = Len(table)
  /\ key_min_ = Rebuilt.key_min
  /\ key_max_ = Rebuilt.key_max
  /\ inner_nodes_ = Rebuilt.I
  /\ values = <<>>
  /\ lastOp = Idle
  /\ reads = NoResult
  /\ pre = <<>>
  /\ aborted = FALSE
  /\ inserted = 0
  /\ pc = "idle"
  /\ rd = NoReader

\* "this->base_reorganize()" and the ASSERT.
ReorgSnapshot ==
  /\ ~aborted /\ pc = "idle"
  /\ container_' = SortedSnapshot(table)
  /\ size_' = Len(table)
  /\ pre' = Published
  /\ IF ~(Pow(k_, num_layers_) - 1 < size_')
     THEN aborted' = TRUE /\ pc' = "idle"
     ELSE aborted' = FALSE /\ pc' = "keys"
  /\ UNCHANGED <<k_, num_layers_, table, key_min_, key_max_, inner_nodes_,
                 values, lastOp, reads, inserted, rd>>

\* "key_min_ = container_[0].key_; key_max_ = container_[size_ - 1].key_".
ReorgKeys ==
  /\ ~aborted /\ pc = "keys"
  /\ key_min_' = KeyAt(0)
  /\ key_max_' = KeyAt(size_ - 1)
  /\ pc' = "nodes"
  /\ UNCHANGED <<k_, num_layers_, table, container_, size_, inner_nodes_,
                 values, lastOp, reads, pre, aborted, inserted, rd>>

\* "inner_nodes_ = new KeyT[inner_size]": an array whose elements hold
\* whatever the allocation held; or "inner_nodes_ = nullptr".
ReorgAllocate ==
  /\ ~aborted /\ pc = "nodes"
  /\ IF num_layers_ # 0
     THEN /\ \E junk \in [0..(Pow(k_, num_layers_) - 2) -> Keys] :
               inner_nodes_' = junk
          /\ pc' = "construct"
     ELSE /\ inner_nodes_' = <<>>
          /\ pc' = "idle"
  /\ UNCHANGED <<k_, num_layers_, table, container_, size_, key_min_,
                 key_max_, values, lastOp, reads, pre, aborted, inserted,
                 rd>>

\* "construct_inner_layers()": the pivots are written into the new array.
ReorgConstruct ==
  /\ ~aborted /\ pc = "construct"
  /\ inner_nodes_' = InnerNodesAfter(construct_inner_layers,
                                     Pow(k_, num_layers_) - 1, inner_nodes_)
  /\ pc' = "idle"
  /\ UNCHANGED <<k_, num_layers_, table, container_, size_, key_min_,
                 key_max_, values, lastOp, reads, pre, aborted, inserted,
                 rd>>

\* find: "if (this->size_ == 0) return;".
ReadSize(key) ==
  /\ ~aborted /\ rd.at = "idle"
  /\ rd' = [at |-> IF size_ = 0 THEN "returned" ELSE "range", key |-> key,
            seen |-> [N |-> size_]]
  /\ UNCHANGED <<k_, num_layers_, table, container_, size_, key_min_,
                 key_max_, inner_nodes_, values, lastOp, reads, pre, aborted,
                 inserted, pc>>

\* find: the comparisons of key with key_max_ and key_min_.
ReadRange ==
  /\ ~aborted /\ rd.at = "range"
  /\ rd' = [at |-> IF rd.key > key_max_ \/ rd.key < key_min_
                   THEN "returned"
                   ELSE IF key_max_ = key_min_ THEN "snapshot" ELSE "nodes",
            key |-> rd.key,
            seen |-> [N |-> rd.seen.N, key_min |-> key_min_,
                      key_max |-> key_max_]]
  /\ UNCHANGED <<k_, num_layers_, table, container_, size_, key_min_,
                 key_max_, inner_nodes_, values, lastOp, reads, pre, aborted,
                 inserted, pc>>

\* find: find_inner_layers(key) reads the pivots.
ReadNodes ==
  /\ ~aborted /\ rd.at = "nodes"
  /\ rd' = [at |-> "snapshot", key |-> rd.key,
            seen |-> [N |-> rd.seen.N, key_min |-> rd.seen.key_min,
                      key_max |-> rd.seen.key_max, I |-> inner_nodes_]]
  /\ UNCHANGED <<k_, num_layers_, table, container_, size_, key_min_,
                 key_max_, inner_nodes_, values, lastOp, reads, pre, aborted,
                 inserted, pc>>

\* find: the binary search and the scans read the snapshot, and find
\* returns.  before and after are the state of the index before the
\* rebuild that is in progress and after it (the published state twice
\* when none is in progress).
ReadSnapshot ==
  /\ ~aborted /\ rd.at = "snapshot"
  /\ rd' = [at |-> "returned", key |-> rd.key,
            seen |-> [N |-> rd.seen.N, key_min |-> rd.seen.key_min,
                      key_max |-> rd.seen.key_max,
                      I |-> IF "I" \in DOMAIN rd.seen THEN rd.seen.I
                            ELSE inner_nodes_,
                      C |-> container_],
            before |-> IF pc = "idle" THEN Published ELSE pre,
            after |-> IF pc = "idle" THEN Published ELSE Rebuilt]
  /\ UNCHANGED <<k_, num_layers_, table, container_, size_, key_min_,
                 key_max_, inner_nodes_, values, lastOp, reads, pre, aborted,
                 inserted, pc>>

\* The reader's find has returned; it may call find again.
ReadReturn ==
  /\ ~aborted /\ rd.at = "returned"
  /\ rd' = NoReader
  /\ UNCHANGED <<k_, num_layers_, table, container_, size_, key_min_,
                 key_max_, inner_nodes_, values, lastOp, reads, pre, aborted,
                 inserted, pc>>

NextConc ==
  \/ \E key \in Keys : Insert(key)
  \/ ReorgSnapshot
  \/ ReorgKeys
  \/ ReorgAllocate
  \/ ReorgConstruct
  \/ \E key \in Keys : ReadSize(key)
  \/ ReadRange
  \/ ReadNodes
  \/ ReadSnapshot
  \/ ReadReturn

SpecConc == InitConc /\ [][NextConc]_vars

(***************************************************************************)
(* Properties.                                                             *)
(***************************************************************************)
\* A reorganize() has succeeded: the index holds a snapshot.
Built == size_ > 0 /\ ~aborted

\* The snapshot positions that hold key, and the last find's key.
Occurrences(key) == {p \in 0..(size_ - 1) : KeyAt(p) = key}
FoundKey == lastOp.key
AfterFind == lastOp.op = "find" /\ Built

\* No pivot the last find read equals its key: the anchor was not a pivot hit.
NoPivotHit == \A j \in reads.readI : inner_nodes_[j] # FoundKey

\* C1 (completeness): a find of a key that occurs m >= 1 times in the
\* snapshot appends exactly m values, the value of each of the m entries
\* with that key exactly once.
C1_Completeness ==
  (AfterFind /\ Occurrences(FoundKey) # {}) =>
    /\ Len(values) = Cardinality(Occurrences(FoundKey))
    /\ \A p \in Occurrences(FoundKey) :
         Cardinality({j \in 1..Len(values) : values[j] = ValueAt(p)}) = 1

\* A find of a duplicated key that went down every layer of a tree with at
\* least two layers and took its anchor from the binary search of the leaf.
C1_Witness ==
  /\ AfterFind
  /\ num_layers_ >= 2
  /\ Len(reads.path) = num_layers_
  /\ NoPivotHit
  /\ Cardinality(Occurrences(FoundKey)) >= 2
  /\ Len(values) = Cardinality(Occurrences(FoundKey))

\* C2 (exclusion): a find of a key that does not occur in the snapshot
\* appends nothing.
C2_Exclusion ==
  (AfterFind /\ Occurrences(FoundKey) = {}) => values = <<>>

\* C3 (order stability): the values a find appends appear in ascending
\* snapshot position, which is the order in which the tuples were inserted.
C3_OrderStability ==
  AfterFind =>
    \A i \in 1..Len(values), j \in 1..Len(values) :
      i < j => (reads.emitted[i] < reads.emitted[j] /\ values[i] < values[j])

\* The positions whose key lies in [lhs, rhs], in ascending order.
RECURSIVE InRangeFrom(_, _, _)
InRangeFrom(p, lhs, rhs) ==
  IF p > size_ - 1 \/ KeyAt(p) > rhs THEN <<>>
  ELSE (IF KeyAt(p) >= lhs THEN <<p>> ELSE <<>>) \o
       InRangeFrom(p + 1, lhs, rhs)

\* C4 (range lookup): on a non-empty index, find_range(lhs, rhs) with
\* lhs <= key_max and rhs >= key_min appends the values of the entries with
\* lhs <= key <= rhs in ascending snapshot position.
C4_RangeLookup ==
  (lastOp.op = "find_range" /\ Built
     /\ lastOp.key <= key_max_ /\ lastOp.rhs >= key_min_) =>
    values = ValuesAt(InRangeFrom(0, lastOp.key, lastOp.rhs))

\* C5 (atomic publication of a rebuild): a find that ran interleaved with
\* reorganize() and read all five fields observed either the state before
\* the rebuild or the state after it.
C5_AtomicPublication ==
  (rd.at = "returned" /\ "C" \in DOMAIN rd.seen) =>
    (rd.seen = rd.before \/ rd.seen = rd.after)

\* C6 (configuration errors leave the index unchanged): when reorganize()
\* reports k^L - 1 >= N, the published state is what it was before the call.
C6_ErrorLeavesStateUnchanged ==
  (lastOp.op = "reorganize" /\ ~lastOp.ok) => Published = pre

\* C7 (rebuild idempotence): a reorganize() that follows a successful
\* reorganize() with no insert in between leaves C, I, N, key_min and
\* key_max as they were.
C7_RebuildIdempotence ==
  (lastOp.op = "reorganize" /\ lastOp.ok /\ lastOp.again) => Published = pre

\* A second rebuild in a row of an index with at least two inner layers.
C7_Witness ==
  /\ lastOp.op = "reorganize" /\ lastOp.ok /\ lastOp.again
  /\ num_layers_ >= 2
  /\ pre.N = size_ /\ pre.I = inner_nodes_

\* C8 (out-of-range and empty short-circuit): a find on an empty index, or
\* of a key below key_min or above key_max, appends nothing and reads no
\* element of the inner-node array or of the snapshot.
C8_ShortCircuit ==
  (lastOp.op = "find" /\ ~aborted
     /\ (size_ = 0 \/ FoundKey < key_min_ \/ FoundKey > key_max_)) =>
    (values = <<>> /\ reads.readI = {} /\ reads.readC = {})

\* A find of a key above key_max on an index with inner layers and
\* several distinct keys.
C8_Witness ==
  /\ AfterFind
  /\ num_layers_ >= 1
  /\ key_min_ < key_max_
  /\ FoundKey > key_max_
  /\ values = <<>>

\* The snapshot range of the node with level-order index n in layer l, by
\* the child-range rule from [0, N-1]: with step = (hi - lo) / k, child 0 is
\* [lo, lo + step - 1], child i (1 <= i <= k-2) is
\* [lo + step*i + 1, lo + step*(i+1) - 1], child k-1 is
\* [lo + step*(k-1) + 1, hi].
RECURSIVE NodeRange(_, _)
NodeRange(l, n) ==
  IF l = 0 THEN [lo |-> 0, hi |-> size_ - 1]
  ELSE LET up == NodeRange(l - 1, n \div k_)
           i == n % k_
           step == (up.hi - up.lo) \div k_
       IN [lo |-> IF i = 0 THEN up.lo ELSE up.lo + step * i + 1,
           hi |-> IF i = k_ - 1 THEN up.hi ELSE up.lo + step * (i + 1) - 1]

\* The position of I that holds pivot i of node n of layer l.
Slot(l, n, i) == (Pow(k_, l) - 1) + n * (k_ - 1) + i

\* Pivot i of the node over [lo, hi] is the key at lo + ((hi - lo) / k)*(i+1).
PivotPlaced(l, n, i) ==
  LET r == NodeRange(l, n)
  IN inner_nodes_[Slot(l, n, i)] =
       KeyAt(r.lo + ((r.hi - r.lo) \div k_) * (i + 1))

\* A node the descent visited is the node of its layer that the child-range
\* rule gives its range to, and the descent read only that node's pivots.
VisitAgrees(v) ==
  LET l == v.curr_layer
      n == v.dst_pos \div (k_ - 1)
  IN /\ v.base_pos = Pow(k_, l) - 1
     /\ v.dst_pos = n * (k_ - 1)
     /\ n \in 0..(Pow(k_, l) - 1)
     /\ NodeRange(l, n) = [lo |-> v.begin_offset, hi |-> v.end_offset]
     /\ v.readI \subseteq {Slot(l, n, i) : i \in 0..(k_ - 2)}

\* C9 (pivot placement): after a successful reorganize() with L >= 1 every
\* pivot i of every node n of every layer l < L is the key at
\* lo + ((hi - lo) / k)*(i+1) of the node's range [lo, hi], and the descent
\* of a find uses the same base, slot and range at every node it visits.
C9_PivotPlacement ==
  (Built /\ num_layers_ >= 1) =>
    /\ \A l \in 0..(num_layers_ - 1) :
         \A n \in 0..(Pow(k_, l) - 1) :
           \A i \in 0..(k_ - 2) : PivotPlaced(l, n, i)
    /\ lastOp.op = "find" =>
         \A j \in 1..Len(reads.path) :
           reads.path[j].curr_layer = j - 1 /\ VisitAgrees(reads.path[j])

\* A find that went down three layers of a built tree.
C9_Witness ==
  /\ AfterFind
  /\ num_layers_ >= 3
  /\ Len(reads.path) = num_layers_
  /\ \A j \in 1..Len(reads.path) : VisitAgrees(reads.path[j])

\* The pivots of node n of layer l.
NodePivots(l, n) == {inner_nodes_[Slot(l, n, i)] : i \in 0..(k_ - 2)}

\* Within every node the pivots are non-decreasing from left to right.
GroupsNonDecreasing ==
  \A l \in 0..(num_layers_ - 1) :
    \A n \in 0..(Pow(k_, l) - 1) :
      \A i \in 0..(k_ - 3) :
        inner_nodes_[Slot(l, n, i)] <= inner_nodes_[Slot(l, n, i + 1)]

\* C10 as stated (pivot ordering): within every layer the pivots of each
\* node are non-decreasing, and every pivot of node s is strictly less than
\* every pivot of node s+1 of the same layer.
C10_PivotOrderingStrict ==
  (Built /\ num_layers_ >= 1) =>
    /\ GroupsNonDecreasing
    /\ \A l \in 0..(num_layers_ - 1) :
         \A s \in 0..(Pow(k_, l) - 2) :
           \A a \in NodePivots(l, s), b \in NodePivots(l, s + 1) : a < b

\* C10 as amended: within every layer the pivots of each node are
\* non-decreasing, and every pivot of node s is less than or equal to every
\* pivot of node s+1 of the same layer.
C10_PivotOrdering ==
  (Built /\ num_layers_ >= 1) =>
    /\ GroupsNonDecreasing
    /\ \A l \in 0..(num_layers_ - 1) :
         \A s \in 0..(Pow(k_, l) - 2) :
           \A a \in NodePivots(l, s), b \in NodePivots(l, s + 1) : a <= b

\* A built tree with two layers over a snapshot with duplicate keys in which
\* two neighbouring nodes of layer 1 hold the same pivot.
C10_Witness ==
  /\ Built
  /\ num_layers_ >= 2
  /\ key_min_ < key_max_
  /\ \E s \in 0..(k_ - 2) : NodePivots(1, s) \cap NodePivots(1, s + 1) # {}

\* The positions of I written by a sequence of writes, one entry per write.
WrittenPositions(writes) == [j \in 1..Len(writes) |-> writes[j].pos]

\* The number of nodes in layers 0..L-1 of the complete k-ary tree.
InnerNodeCount == (Pow(k_, num_layers_) - 1) \div (k_ - 1)

\* Every call reached a node of layers 0..L-1 with a non-empty range, and
\* there is one call per node of those layers.
EveryNodeNonEmpty(visits) ==
  /\ Len(visits) = InnerNodeCount
  /\ \A j \in 1..Len(visits) :
       /\ ~visits[j].returned_early
       /\ visits[j].begin_offset <= visits[j].end_offset
       /\ visits[j].curr_layer \in 0..(num_layers_ - 1)

\* Each of the inner_size positions is the target of exactly one write.
EveryPositionWrittenOnce(writes, inner_size) ==
  /\ Len(writes) = inner_size
  /\ \A pos \in 0..(inner_size - 1) :
       Cardinality({j \in 1..Len(writes) :
                      WrittenPositions(writes)[j] = pos}) = 1
  /\ Unwritten(writes, inner_size) = {}

\* C11 (full initialisation of the inner-node array): after a successful
\* reorganize() with L >= 1 (so k^L - 1 < N), construction reaches every
\* node of layers 0..L-1, each with a non-empty range (the early return on
\* begin_offset > end_offset is never taken), and writes each of the
\* k^L - 1 positions of I exactly once.
C11_FullInitialisation ==
  (Built /\ num_layers_ >= 1) =>
    /\ EveryNodeNonEmpty(construct_visits)
    /\ EveryPositionWrittenOnce(construct_inner_layers,
                                Pow(k_, num_layers_) - 1)

\* A rebuild that has just succeeded with fan-out 3 and two layers, in which
\* a node of the last layer covers a single snapshot position: the smallest
\* range the child-range rule leaves when k^L - 1 < N.
C11_Witness ==
  /\ lastOp.op = "reorganize" /\ lastOp.ok
  /\ k_ >= 3 /\ num_layers_ >= 2
  /\ \E j \in 1..Len(construct_visits) :
       /\ construct_visits[j].curr_layer = num_layers_ - 1
       /\ construct_visits[j].begin_offset = construct_visits[j].end_offset
  /\ Len(construct_inner_layers) = Pow(k_, num_layers_) - 1

\* The positions of C and of I the last find touched: those it read and
\* those whose values it appended.
TouchedC == reads.readC \cup {reads.emitted[j] : j \in 1..Len(reads.emitted)}
TouchedI == reads.readI

\* C12 (in-bounds reads in find): after a successful reorganize(), every
\* position of C a find reads lies in [0, N) and every position of I it
\* reads lies in [0, k^L - 1); no find divides a negative range or looks up
\* a position outside the snapshot, also when L = 0 (the binary search is
\* handed (0, N)) and when the terminal leaf range is empty.
C12_InBoundsReads ==
  AfterFind =>
    /\ ~reads.undefined
    /\ TouchedC \subseteq 0..(size_ - 1)
    /\ TouchedI \subseteq 0..(Pow(k_, num_layers_) - 2)
    /\ \A j \in 1..Len(reads.path) :
         /\ 0 <= reads.path[j].begin_offset
         /\ reads.path[j].begin_offset <= reads.path[j].end_offset
         /\ reads.path[j].end_offset <= size_ - 1

\* A find that went down every layer without a pivot hit and reached an
\* empty terminal leaf range: it read pivots but no snapshot position.
C12_Witness ==
  /\ AfterFind
  /\ num_layers_ >= 2
  /\ key_min_ < FoundKey /\ FoundKey < key_max_
  /\ Len(reads.path) = num_layers_
  /\ NoPivotHit
  /\ reads.readI # {}
  /\ reads.readC = {}
  /\ values = <<>>

\* A find on an index without inner layers whose binary search, started on
\* (0, N), went as far right as the last snapshot position and stopped there.
C12_NoLayersReached ==
  /\ AfterFind
  /\ num_layers_ = 0
  /\ key_min_ < key_max_
  /\ size_ - 1 \in reads.readC
  /\ Occurrences(FoundKey) = {}
  /\ values = <<>>

====
